---- MODULE Spec2Model ----
(***************************************************************************)
(* Model of the vCard form of personal-qr-code                             *)
(* (src/src/components/vcard/VCardForm.tsx): the contact record, the field *)
(* error map, the QR generation state and the handlers that change them.   *)
(*                                                                         *)
(* A string is a sequence of one-character strings.  The serialized vCard  *)
(* is a sequence of tokens: the literal line prefixes ("TEL;TYPE=CELL:")   *)
(* and the line break are single tokens, field values contribute their     *)
(* characters.                                                             *)
(***************************************************************************)
EXTENDS Integers, Sequences, FiniteSets, TLC

\* ------------------------------------------------------------------ bounds
\* At most this many toDataURL calls are outstanding at a time.
MaxPending == 2

\* ------------------------------------------------------------- FormState
Fields ==
    {"firstName", "lastName", "jobTitle", "company", "email", "phone",
     "website", "street", "city", "state", "postalCode", "country"}

Null == <<>>

initialFormState == [f \in Fields |-> <<>>]

\* ------------------------------------------------------------ characters
Lower ==
    {"a", "b", "c", "d", "e", "f", "g", "h", "i", "j", "k", "l", "m",
     "n", "o", "p", "q", "r", "s", "t", "u", "v", "w", "x", "y", "z"}
Upper ==
    {"A", "B", "C", "D", "E", "F", "G", "H", "I", "J", "K", "L", "M",
     "N", "O", "P", "Q", "R", "S", "T", "U", "V", "W", "X", "Y", "Z"}
Digit == {"0", "1", "2", "3", "4", "5", "6", "7", "8", "9"}
Alnum == Lower \cup Upper \cup Digit

IsSpace(c) == c = " "

\* String.prototype.trim
RECURSIVE TrimStart(_)
TrimStart(s) ==
    IF s # <<>> /\ IsSpace(Head(s)) THEN TrimStart(Tail(s)) ELSE s

RECURSIVE TrimEnd(_)
TrimEnd(s) ==
    IF s # <<>> /\ IsSpace(s[Len(s)])
    THEN TrimEnd(SubSeq(s, 1, Len(s) - 1))
    ELSE s

Trim(s) == TrimEnd(TrimStart(s))

\* The segments of s between occurrences of the character sep.
RECURSIVE Split(_, _)
Split(s, sep) ==
    IF \E i \in 1..Len(s) : s[i] = sep
    THEN LET i == CHOOSE k \in 1..Len(s) :
                      s[k] = sep /\ \A j \in 1..(k - 1) : s[j] # sep
         IN  <<SubSeq(s, 1, i - 1)>> \o Split(SubSeq(s, i + 1, Len(s)), sep)
    ELSE <<s>>

\* --------------------------------------------------------------- formSchema
\* z.email(): the pattern
\*   ^(?!\.)(?!.*\.\.)([A-Za-z0-9_'+\-\.]*)[A-Za-z0-9_+-]@
\*    ([A-Za-z0-9][A-Za-z0-9\-]*\.)+[A-Za-z]{2,}$
IsEmail(s) ==
    LET parts  == Split(s, "@")
        local  == parts[1]
        domain == parts[2]
        labels == Split(domain, ".")
        tld    == labels[Len(labels)]
    IN  /\ Len(parts) = 2
        /\ local # <<>>
        /\ local[1] # "."
        /\ \A i \in 1..(Len(s) - 1) : ~(s[i] = "." /\ s[i + 1] = ".")
        /\ \A i \in 1..Len(local) :
              local[i] \in Alnum \cup {"_", "'", "+", "-", "."}
        /\ local[Len(local)] \in Alnum \cup {"_", "+", "-"}
        /\ Len(labels) >= 2
        /\ Len(tld) >= 2
        /\ \A i \in 1..Len(tld) : tld[i] \in Lower \cup Upper
        /\ \A n \in 1..(Len(labels) - 1) :
              /\ labels[n] # <<>>
              /\ labels[n][1] \in Alnum
              /\ \A i \in 1..Len(labels[n]) : labels[n][i] \in Alnum \cup {"-"}

\* z.url(): the value, with surrounding white space removed, parses as an
\* absolute URL: a scheme (a letter, then letters, digits, "+", "-", "."),
\* then ":".  The schemes that require a host (http, https, ftp, ws, wss,
\* file) must be followed by "//" and a non-empty host.
SpecialSchemes ==
    {<<"h", "t", "t", "p">>, <<"h", "t", "t", "p", "s">>, <<"f", "t", "p">>,
     <<"w", "s">>, <<"w", "s", "s">>, <<"f", "i", "l", "e">>}

IsUrl(s) ==
    LET t == Trim(s)
    IN  \E i \in 2..Len(t) :
            /\ t[i] = ":"
            /\ t[1] \in Lower \cup Upper
            /\ \A j \in 2..(i - 1) : t[j] \in Alnum \cup {"+", "-", "."}
            /\ SubSeq(t, 1, i - 1) \in SpecialSchemes =>
                  /\ Len(t) >= i + 3
                  /\ t[i + 1] = "/"
                  /\ t[i + 2] = "/"
                  /\ t[i + 3] \in Alnum

RequiredMessage(field) ==
    IF field = "firstName" THEN "validation.firstNameRequired"
    ELSE IF field = "phone" THEN "validation.phoneRequired"
    ELSE ""

\* formSchema.shape[field].safeParse(value):
\* [success, data (the parsed output), message (issues[0].message)].
SafeParseField(field, value) ==
    IF field \in {"firstName", "phone"}
    THEN [success |-> Len(Trim(value)) >= 1,
          data    |-> Trim(value),
          message |-> RequiredMessage(field)]
    ELSE IF field = "email"
    THEN [success |-> IsEmail(value) \/ value = <<>>,
          data    |-> value,
          message |-> "validation.emailInvalid"]
    ELSE IF field = "website"
    THEN [success |-> IsUrl(value) \/ value = <<>>,
          data    |-> IF value = <<>> THEN value ELSE Trim(value),
          message |-> "validation.websiteInvalid"]
    ELSE [success |-> TRUE, data |-> Trim(value), message |-> ""]

\* Mutant of SafeParse: validation stops at the first failing field.
SafeParseFirstFailureOnly(data) ==
    LET failing == {f \in Fields : ~SafeParseField(f, data[f]).success}
        first   == IF failing = {} THEN {} ELSE {CHOOSE f \in failing : TRUE}
    IN  [success     |-> failing = {},
         data        |-> [f \in Fields |-> SafeParseField(f, data[f]).data],
         fieldErrors |-> [f \in first |-> SafeParseField(f, data[f]).message]]

\* formSchema.safeParse(formData): success, the parsed record, and
\* error.flatten().fieldErrors reduced to the first message of each field.
SafeParse(data) ==
    LET failing == {f \in Fields : ~SafeParseField(f, data[f]).success}
    IN  [success     |-> failing = {},
         data        |-> [f \in Fields |-> SafeParseField(f, data[f]).data],
         fieldErrors |-> [f \in failing |-> SafeParseField(f, data[f]).message]]

\* --------------------------------------------------------------- buildVCard
RECURSIVE JoinWith(_, _)
\* Array.prototype.join
JoinWith(parts, sep) ==
    IF parts = <<>> THEN <<>>
    ELSE IF Len(parts) = 1 THEN parts[1]
    ELSE parts[1] \o <<sep>> \o JoinWith(Tail(parts), sep)

\* A line, or no line when the condition is false.
LineIf(cond, line) == IF cond THEN <<line>> ELSE <<>>

\* Mutant of addressSegments: city is listed before street.
addressSegmentsCityFirst(data) ==
    <<<<>>, <<>>, data.city, data.street, data.state, data.postalCode,
      data.country>>

addressSegments(data) ==
    <<<<>>, <<>>, data.street, data.city, data.state, data.postalCode,
      data.country>>

displayName(data) ==
    LET both == Trim(data.firstName \o <<" ">> \o data.lastName)
    IN  IF both # <<>> THEN both
        ELSE IF data.firstName # <<>> THEN data.firstName
        ELSE data.lastName

\* Mutant of vcardLines: the optional lines are pushed without looking at
\* their fields.
vcardLinesKeepsEmptyLines(data) ==
    <<<<"BEGIN:VCARD">>,
      <<"VERSION:3.0">>,
      <<"N:">> \o data.lastName \o <<";">> \o data.firstName,
      <<"FN:">> \o displayName(data),
      <<"TITLE:">> \o data.jobTitle,
      <<"ORG:">> \o data.company,
      <<"EMAIL;TYPE=INTERNET:">> \o data.email,
      <<"TEL;TYPE=CELL:">> \o data.phone,
      <<"URL:">> \o data.website,
      <<"ADR;TYPE=WORK:">>
          \o JoinWith([i \in 1..7 |-> Trim(addressSegments(data)[i])], ";"),
      <<"END:VCARD">>>>

vcardLines(data) ==
    <<<<"BEGIN:VCARD">>,
      <<"VERSION:3.0">>,
      <<"N:">> \o data.lastName \o <<";">> \o data.firstName,
      <<"FN:">> \o displayName(data)>>
    \o LineIf(data.jobTitle # <<>>, <<"TITLE:">> \o data.jobTitle)
    \o LineIf(data.company # <<>>, <<"ORG:">> \o data.company)
    \o LineIf(data.email # <<>>, <<"EMAIL;TYPE=INTERNET:">> \o data.email)
    \o LineIf(data.phone # <<>>, <<"TEL;TYPE=CELL:">> \o data.phone)
    \o LineIf(data.website # <<>>, <<"URL:">> \o data.website)
    \o LineIf(\E i \in 1..7 : Trim(addressSegments(data)[i]) # <<>>,
              <<"ADR;TYPE=WORK:">>
              \o JoinWith([i \in 1..7 |-> Trim(addressSegments(data)[i])], ";"))
    \o <<<<"END:VCARD">>>>

buildVCard(data) == JoinWith(vcardLines(data), "\n")

\* QRCode.toDataURL(text, {errorCorrectionLevel: "M", margin: 1, scale: 6})
\* when it resolves: a data URL that is a function of the text alone.
toDataURL(text) == <<"data:image/png;base64,">> \o text

\* ------------------------------------------------------------- file name
AlphabetLower ==
    <<"a", "b", "c", "d", "e", "f", "g", "h", "i", "j", "k", "l", "m",
      "n", "o", "p", "q", "r", "s", "t", "u", "v", "w", "x", "y", "z">>
AlphabetUpper ==
    <<"A", "B", "C", "D", "E", "F", "G", "H", "I", "J", "K", "L", "M",
      "N", "O", "P", "Q", "R", "S", "T", "U", "V", "W", "X", "Y", "Z">>

\* String.prototype.toLowerCase
toLowerCase(s) ==
    [i \in 1..Len(s) |->
        IF s[i] \in Upper
        THEN AlphabetLower[CHOOSE k \in 1..26 : AlphabetUpper[k] = s[i]]
        ELSE s[i]]

\* The class [^a-z0-9] under the i flag.
Unsafe(c) == c \notin Alnum

\* .replace(/[^a-z0-9]+/gi, "-"): every maximal run becomes one hyphen.
RECURSIVE DropUnsafe(_)
DropUnsafe(s) ==
    IF s # <<>> /\ Unsafe(Head(s)) THEN DropUnsafe(Tail(s)) ELSE s
RECURSIVE ReplaceUnsafeRuns(_)
ReplaceUnsafeRuns(s) ==
    IF s = <<>> THEN <<>>
    ELSE IF Unsafe(Head(s)) THEN <<"-">> \o ReplaceUnsafeRuns(DropUnsafe(s))
    ELSE <<Head(s)>> \o ReplaceUnsafeRuns(Tail(s))

\* .replace(/^-+|-+$/g, "")
RECURSIVE StripLeadingHyphens(_)
StripLeadingHyphens(s) ==
    IF s # <<>> /\ Head(s) = "-" THEN StripLeadingHyphens(Tail(s)) ELSE s
RECURSIVE StripTrailingHyphens(_)
StripTrailingHyphens(s) ==
    IF s # <<>> /\ s[Len(s)] = "-"
    THEN StripTrailingHyphens(SubSeq(s, 1, Len(s) - 1))
    ELSE s
StripHyphens(s) == StripTrailingHyphens(StripLeadingHyphens(s))

combinedName(first, last) == Trim(first \o <<" ">> \o last)

\* Mutant of safeName: the hyphens at the two ends are kept.
safeNameUnstripped(first, last) ==
    ReplaceUnsafeRuns(toLowerCase(Trim(combinedName(first, last))))

safeName(first, last) ==
    StripHyphens(ReplaceUnsafeRuns(toLowerCase(Trim(combinedName(first, last)))))

fileName(first, last) ==
    IF safeName(first, last) # <<>>
    THEN safeName(first, last) \o <<"-vcard-qr.png">>
    ELSE <<"contact-vcard-qr.png">>

\* ------------------------------------------------------------------- state
VARIABLES
    formData,       \* useState<FormState>
    errors,         \* useState<FormErrors>: a function on the fields with an entry
    qrCodeData,     \* useState<string | null>
    isGenerating,   \* useState(false)
    qrError,        \* useState<QrErrorKey | null>
    pending,        \* the payloads of the toDataURL calls not yet settled
    lastEvent,      \* history: the handler that ran last
    submitted,      \* history: the payload built by the latest valid submit
    surplus,        \* history: toDataURL calls made minus valid submits run
    failedEver,     \* history: fields whose latest validation failed
    failedSince,    \* history: the same, counting from the latest reset
    staleRequest,   \* history: a reset or dismissal ran since the outstanding
                    \* toDataURL call was made
    handedOff       \* what the handler that ran last passed to the browser's
                    \* download mechanism: <<href, file name>>, or Null

vars ==
    <<formData, errors, qrCodeData, isGenerating, qrError, pending,
      lastEvent, submitted, surplus, failedEver, failedSince, staleRequest,
      handedOff>>

NoQrError == "null"

NoErrors == [f \in {} |-> ""]

\* The values a user types into a field: one plain optional field can be
\* filled, first name and phone can be missing or blank, email and website
\* can be malformed.  The other fields stay empty.
SampleValues(field) ==
    IF field = "firstName" THEN {<<>>, <<" ">>, <<" ", "a">>}
    ELSE IF field = "lastName" THEN {<<>>, <<"b">>}
    ELSE IF field = "email" THEN {<<>>, <<"a", "@">>}
    ELSE IF field = "phone" THEN {<<>>, <<"1">>}
    ELSE IF field = "website" THEN {<<>>, <<"b">>}
    ELSE {<<>>}

Init ==
    /\ formData = initialFormState
    /\ errors = NoErrors
    /\ qrCodeData = Null
    /\ isGenerating = FALSE
    /\ qrError = NoQrError
    /\ pending = <<>>
    /\ lastEvent = "init"
    /\ submitted = Null
    /\ surplus = 0
    /\ failedEver = {}
    /\ failedSince = {}
    /\ staleRequest = FALSE
    /\ handedOff = Null

\* ----------------------------------------------------------------- handlers
\* Mutant of setFieldError: an absent message leaves the entry in place.
setFieldErrorKeepsEntry(previous, field, message) ==
    IF message # ""
    THEN [f \in (DOMAIN previous) \cup {field} |->
             IF f = field THEN message ELSE previous[f]]
    ELSE previous

\* setFieldError(field, message): message "" stands for an absent message.
setFieldError(previous, field, message) ==
    IF message # ""
    THEN IF field \in DOMAIN previous /\ previous[field] = message
         THEN previous
         ELSE [f \in (DOMAIN previous) \cup {field} |->
                  IF f = field THEN message ELSE previous[f]]
    ELSE IF field \notin DOMAIN previous
         THEN previous
         ELSE [f \in (DOMAIN previous) \ {field} |-> previous[f]]

\* Mutant of validateField: the whole record is validated on blur.
validateFieldWholeRecord(previous, field, value) ==
    SafeParse([formData EXCEPT ![field] = value]).fieldErrors

\* validateField(field, value): the error map it leaves.
validateField(previous, field, value) ==
    LET result == SafeParseField(field, value)
    IN  IF ~result.success
        THEN setFieldError(previous, field, result.message)
        ELSE setFieldError(previous, field, "")

\* Mutant of handleChange: typing into a field removes its error entry.
handleChangeClearsError(field, value) ==
    /\ formData' = [formData EXCEPT ![field] = value]
    /\ errors' = setFieldError(errors, field, "")
    /\ lastEvent' = "change"
    /\ handedOff' = Null
    /\ UNCHANGED <<qrCodeData, isGenerating, qrError, pending, submitted,
                   surplus, failedEver, failedSince, staleRequest>>

handleChange(field, value) ==
    /\ formData' = [formData EXCEPT ![field] = value]
    /\ lastEvent' = "change"
    /\ handedOff' = Null
    /\ UNCHANGED staleRequest
    /\ UNCHANGED <<errors, qrCodeData, isGenerating, qrError, pending,
                   submitted, surplus, failedEver, failedSince>>

\* The input is controlled: event.target.value is formData[field].
handleBlur(field) ==
    LET failed == ~SafeParseField(field, formData[field]).success
    IN  /\ errors' = validateField(errors, field, formData[field])
        /\ failedEver' =
              IF failed THEN failedEver \cup {field} ELSE failedEver \ {field}
        /\ failedSince' =
              IF failed THEN failedSince \cup {field} ELSE failedSince \ {field}
        /\ lastEvent' = "blur"
        /\ handedOff' = Null
        /\ UNCHANGED staleRequest
        /\ UNCHANGED <<formData, qrCodeData, isGenerating, qrError, pending,
                       submitted, surplus>>

\* Mutant of submitInvalid: setQrError(null) runs before the validation
\* result is looked at.
submitInvalidClearsQrError(result) ==
    /\ errors' = result.fieldErrors
    /\ qrError' = NoQrError
    /\ UNCHANGED <<formData, qrCodeData, isGenerating, pending, submitted,
                   surplus>>

\* handleSubmit when safeParse fails: the field errors are stored and the
\* handler returns.
submitInvalid(result) ==
    /\ errors' = result.fieldErrors
    /\ UNCHANGED <<formData, qrCodeData, isGenerating, qrError, pending,
                   submitted, surplus>>

\* handleSubmit when safeParse succeeds, up to the await of the encoder.
\* surplus: one more valid submit, one more toDataURL call.
submitValid(result) ==
    /\ Len(pending) < MaxPending
    /\ errors' = NoErrors
    /\ qrError' = NoQrError
    /\ isGenerating' = TRUE
    /\ pending' = Append(pending, buildVCard(result.data))
    /\ submitted' = buildVCard(result.data)
    /\ surplus' = (surplus - 1) + 1
    /\ UNCHANGED <<formData, qrCodeData>>

handleSubmit ==
    LET result == SafeParse(formData)
    IN  /\ lastEvent' = "submit"
        /\ handedOff' = Null
        /\ UNCHANGED staleRequest
        /\ failedEver' = DOMAIN result.fieldErrors
        /\ failedSince' = DOMAIN result.fieldErrors
        /\ IF ~result.success
           THEN submitInvalid(result)
           ELSE submitValid(result)

\* Mutant of submitDisabled: the button is never disabled.
submitNeverDisabled == FALSE

\* The submit button carries disabled={isGenerating}.
submitDisabled == isGenerating

\* The user asks for a submit: a disabled button dispatches no submit event.
Submit ==
    IF submitDisabled
    THEN /\ lastEvent' = "submitDisabled"
         /\ handedOff' = Null
         /\ UNCHANGED staleRequest
         /\ UNCHANGED <<formData, errors, qrCodeData, isGenerating, qrError,
                        pending, submitted, surplus, failedEver,
                        failedSince>>
    ELSE handleSubmit

Without(s, i) == SubSeq(s, 1, i - 1) \o SubSeq(s, i + 1, Len(s))

\* handleSubmit after the await: toDataURL resolved, then the finally block.
encodeResolved(i) ==
    /\ qrCodeData' = toDataURL(pending[i])
    /\ isGenerating' = FALSE
    /\ pending' = Without(pending, i)
    /\ lastEvent' = "encodeResolved"
    /\ handedOff' = Null
    /\ staleRequest' = (staleRequest /\ Len(pending) > 1)
    /\ UNCHANGED <<formData, errors, qrError, submitted, surplus,
                   failedEver, failedSince>>

\* Mutant of encodeRejected: the catch block calls toDataURL again.
encodeRejectedRetries(i) ==
    /\ qrError' = "generationFailed"
    /\ pending' = Append(Without(pending, i), pending[i])
    /\ surplus' = surplus + 1
    /\ lastEvent' = "encodeRejected"
    /\ handedOff' = Null
    /\ staleRequest' = (staleRequest /\ Len(pending) > 1)
    /\ UNCHANGED <<formData, errors, qrCodeData, isGenerating, submitted,
                   failedEver, failedSince>>

\* Mutant of encodeRejected: the flag is cleared after the await inside the
\* try block and not in a finally block.
encodeRejectedKeepsFlag(i) ==
    /\ qrError' = "generationFailed"
    /\ pending' = Without(pending, i)
    /\ lastEvent' = "encodeRejected"
    /\ handedOff' = Null
    /\ staleRequest' = (staleRequest /\ Len(pending) > 1)
    /\ UNCHANGED <<formData, errors, qrCodeData, isGenerating, submitted,
                   surplus, failedEver, failedSince>>

\* handleSubmit after the await: toDataURL rejected, the catch block, then
\* the finally block.
encodeRejected(i) ==
    /\ qrError' = "generationFailed"
    /\ isGenerating' = FALSE
    /\ pending' = Without(pending, i)
    /\ lastEvent' = "encodeRejected"
    /\ handedOff' = Null
    /\ staleRequest' = (staleRequest /\ Len(pending) > 1)
    /\ UNCHANGED <<formData, errors, qrCodeData, submitted, surplus, failedEver, failedSince>>

\* Mutant of resetFormData: setErrors({}) is missing.
resetFormDataKeepsErrors ==
    /\ formData' = initialFormState
    /\ qrCodeData' = Null
    /\ qrError' = NoQrError
    /\ failedSince' = {}
    /\ lastEvent' = "reset"
    /\ handedOff' = Null
    /\ staleRequest' = (staleRequest \/ pending # <<>>)
    /\ UNCHANGED <<errors, isGenerating, pending, submitted, surplus,
                   failedEver>>

resetFormData ==
    /\ formData' = initialFormState
    /\ errors' = NoErrors
    /\ qrCodeData' = Null
    /\ qrError' = NoQrError
    /\ failedSince' = {}
    /\ lastEvent' = "reset"
    /\ handedOff' = Null
    /\ staleRequest' = (staleRequest \/ pending # <<>>)
    /\ UNCHANGED <<isGenerating, pending, submitted, surplus,
                   failedEver>>

\* Mutant of closeQrModal: closing the modal also empties the form.
closeQrModalClearsForm ==
    /\ qrCodeData # Null
    /\ qrCodeData' = Null
    /\ formData' = initialFormState
    /\ lastEvent' = "dismiss"
    /\ handedOff' = Null
    /\ staleRequest' = (staleRequest \/ pending # <<>>)
    /\ UNCHANGED <<errors, isGenerating, qrError, pending, submitted, surplus,
                   failedEver, failedSince>>

\* The modal, and with it the close button, is rendered only while
\* qrCodeData is set.
closeQrModal ==
    /\ qrCodeData # Null
    /\ qrCodeData' = Null
    /\ lastEvent' = "dismiss"
    /\ handedOff' = Null
    /\ staleRequest' = (staleRequest \/ pending # <<>>)
    /\ UNCHANGED <<formData, errors, isGenerating, qrError, pending, submitted,
                   surplus, failedEver, failedSince>>

\* Mutant of downloadQrCode: the modal is closed once the file is handed over.
downloadQrCodeClosesModal ==
    /\ lastEvent' = "download"
    /\ handedOff' =
          IF qrCodeData = Null THEN Null
          ELSE <<qrCodeData, fileName(formData.firstName, formData.lastName)>>
    /\ qrCodeData' = Null
    /\ UNCHANGED <<formData, errors, isGenerating, qrError, pending,
                   submitted, surplus, failedEver, failedSince, staleRequest>>

\* link.href and link.download of the anchor that is clicked; nothing is
\* created when no artifact is held.
downloadQrCode ==
    /\ lastEvent' = "download"
    /\ handedOff' =
          IF qrCodeData = Null THEN Null
          ELSE <<qrCodeData, fileName(formData.firstName, formData.lastName)>>
    /\ UNCHANGED <<formData, errors, qrCodeData, isGenerating, qrError, pending,
                   submitted, surplus, failedEver, failedSince, staleRequest>>

\* The download button is part of the modal, which is rendered only while
\* qrCodeData is set.
Download == qrCodeData # Null /\ downloadQrCode

Change == \E field \in Fields : \E value \in SampleValues(field) :
              handleChange(field, value)
Blur == \E field \in Fields : handleBlur(field)
EncodeResolved == \E i \in 1..Len(pending) : encodeResolved(i)
EncodeRejected == \E i \in 1..Len(pending) : encodeRejected(i)

Next ==
    \/ Change
    \/ Blur
    \/ Submit
    \/ EncodeResolved
    \/ EncodeRejected
    \/ resetFormData
    \/ closeQrModal
    \/ Download

Spec == Init /\ [][Next]_vars

\* The encoder answers every call: QRCode.toDataURL returns a promise that
\* settles, and the continuation of handleSubmit then runs.
EncoderAnswers == EncodeResolved \/ EncodeRejected

FairSpec == Spec /\ WF_vars(EncoderAnswers)

\* ------------------------------------------------ records typed into the form
\* The handlers applied to records a user can have typed, one family of
\* records for each part of the schema, of the payload and of the file name.
validRecord ==
    [initialFormState EXCEPT !.firstName = <<"a">>, !.phone = <<"1">>]

EmailSamples ==
    {<<>>, <<" ">>, <<"a", "@">>, <<"a", "@", "b", ".", "c", "c">>,
     <<" ", "a", "@", "b", ".", "c", "c">>}

WebsiteSamples ==
    {<<>>, <<" ">>, <<"b">>, <<"x", ":">>, <<" ", "x", ":">>}

ValidationRecords ==
    {[initialFormState EXCEPT !.firstName = fn, !.phone = ph, !.email = em,
                              !.website = ws] :
        fn \in {<<>>, <<" ">>, <<" ", "a">>},
        ph \in {<<>>, <<"1", " ">>},
        em \in EmailSamples,
        ws \in WebsiteSamples}

LineRecords ==
    {[validRecord EXCEPT !.lastName = ln, !.jobTitle = jt, !.company = co,
                         !.email = em, !.website = ws, !.street = st] :
        ln \in {<<>>, <<"b">>},
        jt \in {<<>>, <<"t">>},
        co \in {<<>>, <<"o">>},
        em \in {<<>>, <<"a", "@", "b", ".", "c", "c">>},
        ws \in {<<>>, <<"x", ":">>},
        st \in {<<>>, <<"s">>}}

AddressRecords ==
    {[validRecord EXCEPT !.street = st, !.city = ci, !.state = sa,
                         !.postalCode = pc, !.country = cy] :
        st \in {<<>>, <<" ">>, <<" ", "s">>},
        ci \in {<<>>, <<"c">>},
        sa \in {<<>>, <<" ">>},
        pc \in {<<>>, <<"9">>},
        cy \in {<<>>, <<"r", " ">>}}

NameRecords ==
    {[validRecord EXCEPT !.firstName = fn, !.lastName = ln] :
        fn \in {<<"a">>, <<"A", " ", "-", "9">>, <<"_">>, <<"-", "a">>,
                <<"a", "-", "-", "b">>},
        ln \in {<<>>, <<"B">>, <<"-">>, <<".", "c", ".">>, <<"e", "'">>}}

SampleRecords ==
    ValidationRecords \cup LineRecords \cup AddressRecords \cup NameRecords

InitRecords ==
    /\ formData \in SampleRecords
    /\ errors = NoErrors
    /\ qrCodeData = Null
    /\ isGenerating = FALSE
    /\ qrError = NoQrError
    /\ pending = <<>>
    /\ lastEvent = "change"
    /\ submitted = Null
    /\ surplus = 0
    /\ failedEver = {}
    /\ failedSince = {}
    /\ staleRequest = FALSE
    /\ handedOff = Null

NextRecords ==
    \/ Blur
    \/ Submit
    \/ EncodeResolved
    \/ EncodeRejected
    \/ Download

SpecRecords == InitRecords /\ [][NextRecords]_vars

\* ------------------------------------------------------------------ claims
\* The generation state as the component holds it.
generationState == <<qrCodeData, isGenerating, qrError>>

ArtifactHeld == qrCodeData # Null
ErrorHeld == qrError # NoQrError

\* C1: at most one toDataURL call is outstanding, the Generating flag is set
\* exactly while one is, and a submit asked for while the flag is set issues
\* no call and changes neither the record, the error map nor the generation
\* state.
C1_SingleFlight ==
    /\ [](Len(pending) <= 1 /\ (isGenerating <=> pending # <<>>))
    /\ [][(isGenerating /\ Submit) =>
              UNCHANGED <<formData, errors, generationState, pending>>]_vars

\* C1 witness: a submit was asked for while a call was outstanding.
C1_Witness ==
    lastEvent = "submitDisabled" /\ isGenerating /\ Len(pending) = 1

\* C2: a submit whose record fails safeParse issues no toDataURL call and
\* leaves the record and the generation state as they were; only the error
\* map may change.
C2_InvalidSubmitKeepsGeneration ==
    [][(lastEvent' = "submit" /\ ~SafeParse(formData).success) =>
          /\ UNCHANGED <<formData, generationState, pending, surplus>>
          /\ errors' = SafeParse(formData).fieldErrors]_vars

\* C2 witness: an invalid submit ran while an artifact and a generation
\* error were held, and both are still held.
C2_Witness ==
    /\ lastEvent = "submit"
    /\ errors # NoErrors
    /\ ArtifactHeld
    /\ ErrorHeld

\* C3: the Generating flag, a held artifact and a held generation error are
\* pairwise exclusive.
C3_ExactlyOneState ==
    /\ ~(isGenerating /\ ArtifactHeld)
    /\ ~(isGenerating /\ ErrorHeld)
    /\ ~(ArtifactHeld /\ ErrorHeld)

\* C4: a submit of a valid record sets the Generating flag, clears the
\* generation error and the artifact, and issues exactly one toDataURL call
\* for the serialization of the parsed record.
C4_ValidSubmitClearsAndIssues ==
    [][(lastEvent' = "submit" /\ SafeParse(formData).success) =>
          /\ isGenerating'
          /\ qrError' = NoQrError
          /\ qrCodeData' = Null
          /\ pending' =
                Append(pending, buildVCard(SafeParse(formData).data))]_vars

\* C5: a held artifact is the encoding of the payload built by the latest
\* valid submit.
C5_ArtifactOfLatestSubmit ==
    ArtifactHeld => qrCodeData = toDataURL(submitted)

\* C6: in the state right after the encoder resolved, the encoder rejected,
\* or a reset, the Generating flag is false.
C6_FlagClearedOnEveryExit ==
    lastEvent \in {"encodeResolved", "encodeRejected", "reset"} =>
        ~isGenerating

\* C7: in the state right after a reset the record is the empty record, the
\* error map is empty, no artifact is held and no generation error is held.
C7_ResetLeadsToIdle ==
    lastEvent = "reset" =>
        /\ formData = initialFormState
        /\ errors = NoErrors
        /\ ~ArtifactHeld
        /\ ~ErrorHeld

\* C7 witness: a reset ran after the record had been filled in and
\* validated with a failure.
C7_Witness ==
    lastEvent = "reset" /\ failedEver # {} /\ submitted # Null

Succeeded == ArtifactHeld /\ ~isGenerating /\ ~ErrorHeld
Idle == ~ArtifactHeld /\ ~isGenerating /\ ~ErrorHeld

\* C8: closing the modal in the Succeeded state discards the artifact,
\* leaves the record and the error map as they were, and ends in Idle.
C8_DismissFromSucceeded ==
    [][(Succeeded /\ lastEvent' = "dismiss") =>
          /\ Idle'
          /\ UNCHANGED <<formData, errors>>]_vars

\* C8 witness: the modal was closed with nothing else held, the record
\* still filled in and an error entry still in the map.
C8_Witness ==
    /\ lastEvent = "dismiss"
    /\ Idle
    /\ formData # initialFormState
    /\ errors # NoErrors

\* C9: toDataURL calls never outnumber valid submits; the outstanding calls
\* change only by a valid submit adding the call for its own payload or by
\* the encoder settling one; a rejection adds none.
C9_NoAutomaticRetry ==
    /\ [](surplus <= 0)
    /\ [][pending' # pending =>
              \/ /\ lastEvent' = "submit"
                 /\ SafeParse(formData).success
                 /\ pending' =
                       Append(pending, buildVCard(SafeParse(formData).data))
              \/ /\ lastEvent' \in {"encodeResolved", "encodeRejected"}
                 /\ \E i \in 1..Len(pending) : pending' = Without(pending, i)
          ]_vars

\* C9 witness: the encoder rejected and nothing is outstanding.
C9_Witness ==
    lastEvent = "encodeRejected" /\ ErrorHeld /\ pending = <<>>

\* C10 as stated: a field has an entry exactly when its latest validation,
\* on blur or in a submit, failed.
C10_EntryIffLatestValidationFailed ==
    DOMAIN errors = failedEver

\* C10 as amended: a field has an entry exactly when its latest validation
\* since the latest reset failed; a field not validated since then has
\* none.
C10_EntryIffLatestFailedSinceReset ==
    DOMAIN errors = failedSince

\* C10 witness: a reset discarded a failure, and since then one field has
\* failed validation.
C10_Witness ==
    /\ errors # NoErrors
    /\ failedEver # failedSince
    /\ failedSince # {}


\* The fields of a record that fail their own rule of the schema.
Failing(data) == {f \in Fields : ~SafeParseField(f, data[f]).success}

\* C11: a submit of a record that fails validation leaves a field error map
\* with an entry for every failing field, holding that field's one message,
\* and with no entry for any field that passes.
C11_InvalidSubmitCollectsAllFailures ==
    [][(lastEvent' = "submit" /\ Failing(formData) # {})
          => /\ DOMAIN errors' = Failing(formData)
             /\ \A f \in Failing(formData) :
                   errors'[f] = SafeParseField(f, formData[f]).message]_vars

\* Reached: an invalid submit with several failing fields beside passing
\* ones, and the one of the empty first name with a phone present.
C11_Witness ==
    /\ lastEvent = "submit"
    /\ DOMAIN errors = {"firstName"}
    /\ errors["firstName"] = "validation.firstNameRequired"
    /\ Trim(formData.phone) # <<>>
    /\ formData.website = <<"x", ":">>

\* C12: for every field of the record, validation gives the value and its
\* trimmed form the same verdict.
C12_VerdictUnchangedByTrim ==
    \A f \in Fields :
        SafeParseField(f, formData[f]).success
            = SafeParseField(f, Trim(formData[f])).success

\* The line prefixes in the order buildVCard pushes them.
LineTags ==
    <<"BEGIN:VCARD", "VERSION:3.0", "N:", "FN:", "TITLE:", "ORG:",
      "EMAIL;TYPE=INTERNET:", "TEL;TYPE=CELL:", "URL:", "ADR;TYPE=WORK:",
      "END:VCARD">>

OptionalTags ==
    {"TITLE:", "ORG:", "EMAIL;TYPE=INTERNET:", "TEL;TYPE=CELL:", "URL:",
     "ADR;TYPE=WORK:"}

AddressFields == {"street", "city", "state", "postalCode", "country"}

\* The lines of a serialized text, and the prefix each of them starts with.
LinesOf(text) == Split(text, "\n")
TagsOf(text) == [i \in 1..Len(LinesOf(text)) |-> LinesOf(text)[i][1]]

\* The record handleSubmit passes to buildVCard: the output of safeParse.
parsedRecord == SafeParse(formData).data

\* C13: the lines of the text serialized from the record appear in the fixed
\* order; BEGIN, VERSION, N, FN and END are always there, an optional line is
\* there exactly when its field is non-empty, and no optional line is empty.
C13_LinesInOrderAndOptionalIffFilled ==
    LET data == parsedRecord
        text == buildVCard(data)
        Wanted(tag) ==
            IF tag = "TITLE:" THEN data.jobTitle # <<>>
            ELSE IF tag = "ORG:" THEN data.company # <<>>
            ELSE IF tag = "EMAIL;TYPE=INTERNET:" THEN data.email # <<>>
            ELSE IF tag = "TEL;TYPE=CELL:" THEN data.phone # <<>>
            ELSE IF tag = "URL:" THEN data.website # <<>>
            ELSE IF tag = "ADR;TYPE=WORK:"
                 THEN \E f \in AddressFields : data[f] # <<>>
            ELSE TRUE
    IN  /\ TagsOf(text) = SelectSeq(LineTags, Wanted)
        /\ \A i \in 1..Len(LinesOf(text)) :
              LinesOf(text)[i][1] \in OptionalTags => Len(LinesOf(text)[i]) > 1
        /\ \A i \in 1..Len(pending) : pending[i] = text

\* Reached: the text of a record with some optional fields filled and others
\* empty was handed to the encoder.
C13_Witness ==
    /\ pending = <<buildVCard(parsedRecord)>>
    /\ formData.jobTitle = <<>>
    /\ formData.company # <<>>
    /\ formData.email # <<>>
    /\ formData.website = <<>>
    /\ formData.street # <<>>

\* The ADR lines of a serialized text.
AdrLines(text) ==
    SelectSeq(LinesOf(text), LAMBDA line : line[1] = "ADR;TYPE=WORK:")

\* C14: the text serialized from a record, parsed or as typed, has an ADR line
\* exactly when one of street, city, state, postalCode, country is non-empty
\* after trimming, and that line is the prefix, two empty segments and the
\* five trimmed segments in that order, separated by semicolons.
C14_AdrIffAnySegmentAndAllSegmentsCarried ==
    \A data \in {parsedRecord, formData} :
        LET adr == AdrLines(buildVCard(data))
        IN  /\ Len(adr) = IF \E f \in AddressFields : Trim(formData[f]) # <<>>
                          THEN 1 ELSE 0
            /\ \A i \in 1..Len(adr) :
                  adr[i] = <<"ADR;TYPE=WORK:", ";", ";">>
                           \o Trim(formData.street) \o <<";">>
                           \o Trim(formData.city) \o <<";">>
                           \o Trim(formData.state) \o <<";">>
                           \o Trim(formData.postalCode) \o <<";">>
                           \o Trim(formData.country)

\* Reached: a text with an ADR line was handed to the encoder for a record
\* whose street and state are blank and whose city is not.
C14_Witness ==
    /\ pending = <<buildVCard(parsedRecord)>>
    /\ AdrLines(pending[1]) # <<>>
    /\ formData.street = <<" ">>
    /\ formData.state = <<" ">>
    /\ formData.city # <<>>

\* C15: for the first and last name of the record, the download file name is
\* the fixed default, or a non-empty base over a-z, 0-9 and the hyphen that
\* neither starts nor ends with a hyphen and has no two hyphens in a row,
\* followed by the fixed suffix and extension; a file handed to the browser
\* carries that name.
C15_FileNameWellFormed ==
    LET name == fileName(formData.firstName, formData.lastName)
        base == SubSeq(name, 1, Len(name) - 1)
    IN  /\ \/ name = <<"contact-vcard-qr.png">>
           \/ /\ name[Len(name)] = "-vcard-qr.png"
              /\ base # <<>>
              /\ \A i \in 1..Len(base) : base[i] \in Lower \cup Digit \cup {"-"}
              /\ base[1] # "-"
              /\ base[Len(base)] # "-"
              /\ \A i \in 1..(Len(base) - 1) :
                    ~(base[i] = "-" /\ base[i + 1] = "-")
        /\ handedOff # Null => handedOff[2] = name

\* Reached: a file was handed over under a name built from names with upper
\* case, blanks, punctuation and hyphens at the ends.
C15_Witness ==
    /\ lastEvent = "download"
    /\ formData.firstName = <<"A", " ", "-", "9">>
    /\ formData.lastName = <<".", "c", ".">>
    /\ handedOff[2] = <<"a", "-", "9", "-", "c", "-vcard-qr.png">>

\* The entry of a field in an error map, Null when it has none.
EntryOf(map, f) == IF f \in DOMAIN map THEN <<map[f]>> ELSE Null

\* C16: a blur validates one field only: the entry of that field is set when
\* its value fails and removed when it passes, and the entries of all other
\* fields, the contact record, the generation state and the outstanding
\* encoder calls stay as they were.
C16_BlurTouchesOneEntry ==
    [][lastEvent' = "blur"
          => /\ UNCHANGED <<formData, generationState, pending>>
             /\ \E f \in Fields :
                   /\ \A g \in Fields \ {f} :
                         EntryOf(errors', g) = EntryOf(errors, g)
                   /\ EntryOf(errors', f) =
                         IF SafeParseField(f, formData[f]).success THEN Null
                         ELSE <<SafeParseField(f, formData[f]).message>>]_vars

\* Reached: after a blur the email has an entry while the empty first name,
\* which would fail too, has none, and an encoder call is outstanding.
C16_Witness ==
    /\ lastEvent = "blur"
    /\ DOMAIN errors = {"email"}
    /\ formData.firstName = <<>>
    /\ isGenerating

\* C19: a field change replaces the value of one field of the contact record
\* and nothing else: the other eleven values, the whole field error map, the
\* generation state and the outstanding encoder calls stay as they were; and
\* a field change can be made in every state.
C19_ChangeTouchesOneValue ==
    /\ [](ENABLED Change)
    /\ [][lastEvent' = "change"
             => /\ UNCHANGED <<errors, generationState, pending>>
                /\ \E f \in Fields :
                      \A g \in Fields \ {f} : formData'[g] = formData[g]]_vars

\* Reached: a change made while an encoder call is outstanding gave the first
\* name a value that passes, and the entry of the first name is still there.
C19_Witness ==
    /\ lastEvent = "change"
    /\ isGenerating
    /\ "firstName" \in DOMAIN errors
    /\ Trim(formData.firstName) # <<>>

\* C17: when the encoder answers every call, every state with the Generating
\* flag set is followed by a state with the flag cleared, whatever changes,
\* blurs, dismissals and resets happen in between.
C17_GeneratingEnds == isGenerating ~> ~isGenerating

\* Reached: the flag was cleared by the answer to a call that a reset had
\* overtaken.
C17_Witness ==
    /\ lastEvent = "encodeResolved"
    /\ ~isGenerating
    /\ formData = initialFormState
    /\ errors = NoErrors

\* C18: while the outstanding encoder call was made before the latest reset
\* or dismissal, no artifact is held, and the answer to that call installs
\* none.
C18_StaleResultNeverInstalled ==
    [][staleRequest => ~ArtifactHeld']_vars

\* C20: a download changes nothing of the component's state; with no artifact
\* held it hands nothing to the browser, and with one it hands over that
\* artifact under the file name of the first and last name the record has at
\* that moment.
C20_DownloadHandsOverHeldArtifact ==
    /\ [](handedOff # Null => ArtifactHeld /\ lastEvent = "download")
    /\ [][lastEvent' = "download"
             => /\ UNCHANGED <<formData, errors, generationState, pending>>
                /\ handedOff' =
                      IF ArtifactHeld
                      THEN <<qrCodeData,
                             fileName(formData.firstName, formData.lastName)>>
                      ELSE Null]_vars

\* Reached: the artifact of a record without last name was handed over after
\* a last name had been typed, under the name of both.
C20_Witness ==
    /\ lastEvent = "download"
    /\ handedOff # Null
    /\ handedOff[1] = qrCodeData
    /\ qrCodeData # toDataURL(buildVCard(parsedRecord))
    /\ handedOff[2] = <<"a", "-", "b", "-vcard-qr.png">>

====
